---- MODULE Spec2Model ----
(***************************************************************************)
(* A model of the two command-line programs of openfn-devtools that are    *)
(* held in src/generate-project.js:                                        *)
(*                                                                         *)
(*   - the project spec generator (lines 1-268), an interactive wizard     *)
(*     that collects triggers, credentials and jobs and writes a yaml;     *)
(*   - the release uploader (lines 269-423), which derives a tag and a     *)
(*     repository from a file name, looks the release up and uploads the   *)
(*     build as the asset build.tgz.                                       *)
(*                                                                         *)
(* Text is modelled as a sequence of one-character strings wherever the    *)
(* code looks inside it (file names, entity names).                        *)
(***************************************************************************)
EXTENDS Integers, Sequences, FiniteSets, TLC

VARIABLES
    \* ---- release uploader ----
    upc,             \* position of the run: start, lookup, deleting, uploading, exited
    token,           \* process.env['GH_TOKEN'] is set
    file,            \* argv.i (the empty sequence when -i is absent)
    updateExisting,  \* argv.u || false
    tag,             \* const tag (line 323)
    repo,            \* repo (line 324)
    disk,            \* the local artifact as fs.statSync / fs.readFileSync see it
    release,         \* the release the lookup resolved with
    net,             \* requests issued to the hosting API and their outcomes, in order
    exitCode,        \* exit status of the process; -1 while it runs
    stdout,          \* the download URL reported, if any
    stderr,          \* the last error message reported
    \* ---- project spec generator ----
    gpc,             \* position of the wizard
    outputPath,      \* let outputPath (line 16)
    type,            \* let type (line 17)
    jobs,            \* let jobs (line 18)
    triggers,        \* let triggers (line 19)
    credentials,     \* let credentials (line 20)
    history,         \* prompt's history of answered properties, newest first
    pending,         \* answers of the form being filled in
    console,         \* what the current prompt has printed: notice and message
    written,         \* the document at outputPath, if one was written
    gexit            \* exit status of the wizard; -1 while it runs

uvars == <<upc, token, file, updateExisting, tag, repo, disk, release, net,
           exitCode, stdout, stderr>>
gvars == <<gpc, outputPath, type, jobs, triggers, credentials, history,
           pending, console, written, gexit>>
vars == <<uvars, gvars>>

\* ------------------------------------------------------------------ bounds
MaxVerParts == 4
MaxSize == 2

\* ------------------------------------------------------------------ text
Digit == {"0", "1", "2", "3", "4", "5", "6", "7", "8", "9"}
Letter == {"a", "b", "g", "t", "v", "z", "i", "p"}
\* \w of a JavaScript regular expression, over the characters the model uses
WordChar == Digit \cup Letter \cup {"_"}
\* \s of a JavaScript regular expression, over the characters the model uses
Whitespace == {" ", "\t"}

AllIn(s, class) == \A i \in DOMAIN s : s[i] \in class

\* A regular expression is a sequence of items, each a character class that
\* is matched once or, with plus, one or more times.
One(class) == [class |-> class, plus |-> FALSE]
Plus(class) == [class |-> class, plus |-> TRUE]

\* The positions that one item can reach from the positions P (a position is
\* the index of the next character to read).
StepItem(s, item, P) ==
    IF item.plus
    THEN {q + 1 : q \in {q \in 1..Len(s) :
                           \E p \in P : p <= q /\ \A r \in p..q : s[r] \in item.class}}
    ELSE {p + 1 : p \in {p \in P : p <= Len(s) /\ s[p] \in item.class}}

RECURSIVE MatchEnds(_, _, _)
\* The positions that the whole of pat can reach from the positions P.
MatchEnds(s, pat, P) ==
    IF pat = <<>> THEN P
    ELSE MatchEnds(s, Tail(pat), StepItem(s, Head(pat), P))

\* pat matches s from position p up to the end of s (the $ anchor).
MatchesToEnd(s, pat, p) == (Len(s) + 1) \in MatchEnds(s, pat, {p})

\* String.prototype.match with the regular expression pre(group)post$ : the
\* empty set stands for null, otherwise the one element is capture group 1 of
\* the leftmost match, its quantifiers greedy.
MatchGroup(s, pre, group, post) ==
    LET starts == {i \in 1..Len(s) : MatchesToEnd(s, pre \o group \o post, i)}
    IN  IF starts = {} THEN {}
        ELSE LET i == CHOOSE x \in starts : \A y \in starts : x <= y
                 gs == CHOOSE x \in MatchEnds(s, pre, {i}) : TRUE
                 ge == {e \in MatchEnds(s, group, {gs}) : MatchesToEnd(s, post, e)}
                 e == CHOOSE x \in ge : \A y \in ge : x >= y
             IN  {SubSeq(s, gs, e - 1)}

DotTgzPat == <<One({"."}), One({"t"}), One({"g"}), One({"z"})>>

\* file.match(/(\d+\.\d+\.\d+)\.tgz$/)
TagMatch(f) ==
    MatchGroup(f, <<>>,
               <<Plus(Digit), One({"."}), Plus(Digit), One({"."}), Plus(Digit)>>,
               DotTgzPat)

\* file.match(/\/([\w-]+)-v[\d\.]+\.tgz$/)
RepoMatch(f) ==
    MatchGroup(f, <<One({"/"})>>,
               <<Plus(WordChar \cup {"-"})>>,
               <<One({"-"}), One({"v"}), Plus(Digit \cup {"."})>> \o DotTgzPat)

\* ------------------------------------------------------- release uploader
owner == <<"O", "p", "e", "n", "F", "n">>

\* The -i values tried: <dir><repo><sep><version><ext>.
Dirs == {<<>>, <<".", "/">>}
RepoNames == {<<"a">>, <<"a", "-", "b">>, <<"a", ".", "b">>}
Seps == {<<"-", "v">>, <<"-">>}
VerDigits == {"1", "2"}
Exts == {<<".", "t", "g", "z">>, <<".", "z", "i", "p">>}

RECURSIVE VersionsOf(_)
VersionsOf(n) ==
    IF n = 1 THEN {<<d>> : d \in VerDigits}
    ELSE {v \o <<".", d>> : v \in VersionsOf(n - 1), d \in VerDigits}

Versions == UNION {VersionsOf(n) : n \in 1..MaxVerParts}

Files ==
    {<<>>} \cup
    {d \o r \o p \o v \o x :
        d \in Dirs, r \in RepoNames, p \in Seps, v \in Versions, x \in Exts}

\* The local artifact: absent, or present with a size and readable or not.
Sizes == 1..MaxSize
NoDisk == [exists |-> FALSE, size |-> 0, readable |-> FALSE]
Disks ==
    {NoDisk} \cup
    {[exists |-> TRUE, size |-> n, readable |-> r] : n \in Sizes, r \in BOOLEAN}

\* The releases the hosting API may answer with: asset names are unique in a
\* release, and an asset's id is its position.
AssetNames == {"build.tgz", "notes.txt"}
Asset(n, sz, i) == [name |-> n, size |-> sz, id |-> i]
AssetLists ==
    {<<>>}
    \cup {<<Asset(n, sz, 1)>> : n \in AssetNames, sz \in Sizes}
    \cup {<<Asset(p[1], s1, 1), Asset(p[2], s2, 2)>> :
            p \in {q \in AssetNames \X AssetNames : q[1] # q[2]},
            s1 \in Sizes, s2 \in Sizes}

ReleaseIds == {"r1", "r2"}
Releases == {[data |-> [id |-> i, assets |-> a]] : i \in ReleaseIds, a \in AssetLists}
NoRelease == [data |-> [id |-> "none", assets |-> <<>>]]
Urls == {"https://host/r/build.tgz"}

Line(text) == [text |-> text, arg |-> ""]
Call(op, arg) == [kind |-> "call", op |-> op, arg |-> arg]
Ok(op, arg) == [kind |-> "ok", op |-> op, arg |-> arg]
Err(op, arg) == [kind |-> "err", op |-> op, arg |-> arg]

Error(message) == [name |-> "Error", message |-> message]
AlreadyExists(message) == [name |-> "AlreadyExists", message |-> message]

\* process.exit(1) of the top-level catch: the message goes to console.log.
ExitNow(e) ==
    /\ stdout' = Append(stdout, Line(e.message))
    /\ exitCode' = 1
    /\ upc' = "exited"
    /\ UNCHANGED <<stderr, net, tag, repo, release>>

\* Mutant of ExitCodeFor: the instanceof test is lost.
ExitCodeFor_Mut(e) == 1

\* process.exitCode as the .catch of the promise chain sets it.
ExitCodeFor(e) == IF e.name = "AlreadyExists" THEN 2 ELSE 1

\* The .catch of the promise chain: logError(e), then process.exitCode; the
\* process ends with that code, nothing else being pending.
CatchHandler(e) ==
    /\ stderr' = e.message
    /\ exitCode' = ExitCodeFor(e)
    /\ upc' = "exited"

\* The top-level try block.
Main ==
    /\ upc = "start"
    /\ IF ~token
       THEN ExitNow(Error("Github OAuth token not found, please set via GH_TOKEN=..."))
       ELSE IF file = <<>>
       THEN ExitNow(Error("Please specify file with -i <filename>."))
       ELSE IF TagMatch(file) = {} \/ RepoMatch(file) = {}
       THEN ExitNow(Error("Cannot read property '1' of null"))
       ELSE /\ tag' = <<"v">> \o (CHOOSE g \in TagMatch(file) : TRUE)
            /\ repo' = (CHOOSE g \in RepoMatch(file) : TRUE)
            /\ net' = Append(net, Call("getReleaseByTag",
                                       [owner |-> owner, repo |-> repo', tag |-> tag']))
            /\ upc' = "lookup"
            /\ UNCHANGED <<stdout, stderr, exitCode, release>>
    /\ UNCHANGED <<token, file, updateExisting, disk>>
    /\ UNCHANGED gvars

\* findBuildFor's .catch: what the chain is rejected with.
FindBuildError(e) ==
    IF e.code = 404 THEN Error("<tag> does not exist for repo: <repo>")
    ELSE [name |-> "HttpError", message |-> "lookup failed"]

LookupRejects ==
    /\ upc = "lookup"
    /\ \E code \in {404, 500} :
         /\ net' = Append(net, Err("getReleaseByTag", [code |-> code]))
         /\ CatchHandler(FindBuildError([code |-> code]))
    /\ UNCHANGED <<token, file, updateExisting, disk, tag, repo, release, stdout>>
    /\ UNCHANGED gvars

\* release.data.assets.filter((a) => a.name == 'build.tgz'): existing is the
\* head of this, undefined when it is empty.
ExistingOf(rel) == SelectSeq(rel.data.assets, LAMBDA a : a.name = "build.tgz")

\* Mutant of SameSize: the sizes are compared with the wrong operator.
SameSize_Mut(localSize, assetSize) == localSize > assetSize

\* localSize == existing.size
SameSize(localSize, assetSize) == localSize = assetSize

\* Mutant of MustDelete: the existing asset is never deleted.
MustDelete_Mut(rel) == FALSE

\* existing && updateExisting
MustDelete(rel) == ExistingOf(rel) # <<>> /\ updateExisting

\* Mutant of UploadArgs: release.id is read instead of release.data.id.
UploadArgs_Mut(rel) ==
    [owner |-> owner, repo |-> repo, name |-> "build.tgz",
     release_id |-> "undefined", data |-> disk.size]

\* The arguments of github.repos.uploadReleaseAsset.
UploadArgs(rel) ==
    [owner |-> owner, repo |-> repo, name |-> "build.tgz",
     release_id |-> rel.data.id, data |-> disk.size]

\* The second .then of uploadUnlessExists up to the request: the artifact is
\* read, and with it in hand the upload is issued; a failed read rejects.
StartUpload(rel, soFar) ==
    IF disk.exists /\ disk.readable
    THEN /\ stdout' = Append(stdout, Line("Uploading release asset."))
         /\ net' = Append(soFar, Call("uploadReleaseAsset", UploadArgs(rel)))
         /\ upc' = "uploading"
         /\ UNCHANGED <<stderr, exitCode>>
    ELSE /\ net' = soFar
         /\ stdout' = Append(stdout, Line("Uploading release asset."))
         /\ CatchHandler(Error("ENOENT or EACCES: readFileSync"))

\* The callback uploadUnlessExists(file) returns, run on the release found.
LookupResolves ==
    /\ upc = "lookup"
    /\ \E rel \in Releases :
         LET existing == ExistingOf(rel)
             soFar == Append(net, Ok("getReleaseByTag", rel))
         IN  /\ release' = rel
             /\ IF existing # <<>> /\ ~disk.exists
                THEN /\ net' = soFar
                     /\ CatchHandler(Error("ENOENT: statSync"))
                     /\ UNCHANGED stdout
                ELSE IF existing # <<>> /\ SameSize(disk.size, Head(existing).size)
                THEN /\ net' = soFar
                     /\ CatchHandler(AlreadyExists("Build already exists."))
                     /\ UNCHANGED stdout
                ELSE IF existing # <<>> /\ ~updateExisting
                THEN /\ net' = soFar
                     /\ CatchHandler(AlreadyExists(
                          "Build exists but is a different size. Use -u option to update existing files."))
                     /\ UNCHANGED stdout
                ELSE IF MustDelete(rel)
                THEN /\ net' = Append(soFar, Call("deleteReleaseAsset",
                                  [owner |-> owner, repo |-> repo,
                                   asset_id |-> Head(existing).id]))
                     /\ upc' = "deleting"
                     /\ UNCHANGED <<stdout, stderr, exitCode>>
                ELSE StartUpload(rel, soFar)
    /\ UNCHANGED <<token, file, updateExisting, disk, tag, repo>>
    /\ UNCHANGED gvars

DeleteRejects ==
    /\ upc = "deleting"
    /\ net' = Append(net, Err("deleteReleaseAsset", [code |-> 500]))
    /\ CatchHandler([name |-> "HttpError", message |-> "delete failed"])
    /\ UNCHANGED <<token, file, updateExisting, disk, tag, repo, release, stdout>>
    /\ UNCHANGED gvars

DeleteResolves ==
    /\ upc = "deleting"
    /\ StartUpload(release, Append(net, Ok("deleteReleaseAsset", [status |-> 204])))
    /\ UNCHANGED <<token, file, updateExisting, disk, tag, repo, release>>
    /\ UNCHANGED gvars

\* The .catch on the upload: what the chain is rejected with.
UploadError(err) ==
    IF err.status = "ENOENT" THEN err ELSE Error("Upload Failed.")

UploadRejects ==
    /\ upc = "uploading"
    /\ \E status \in {"ENOENT", "500"} :
         LET err == [name |-> "HttpError", message |-> "request failed", status |-> status]
         IN  /\ net' = Append(net, Err("uploadReleaseAsset", [status |-> status]))
             /\ CatchHandler(UploadError(err))
    /\ UNCHANGED <<token, file, updateExisting, disk, tag, repo, release, stdout>>
    /\ UNCHANGED gvars

\* The upload's .then: the URL is reported and the run ends, exitCode unset.
UploadResolves ==
    /\ upc = "uploading"
    /\ \E url \in Urls :
         /\ net' = Append(net, Ok("uploadReleaseAsset", [browser_download_url |-> url]))
         /\ stdout' = Append(stdout,
                [text |-> "Build uploaded as release asset", arg |-> url])
    /\ exitCode' = 0
    /\ upc' = "exited"
    /\ UNCHANGED <<token, file, updateExisting, disk, tag, repo, release, stderr>>
    /\ UNCHANGED gvars

\* The wizard's variables while the uploader is the program run.
GenIdle ==
    /\ gpc = "off"
    /\ outputPath = "" /\ type = ""
    /\ jobs = <<>> /\ triggers = <<>> /\ credentials = <<>>
    /\ history = <<>> /\ pending = <<>>
    /\ console = [notice |-> <<>>, message |-> ""]
    /\ written = [path |-> "", data |-> <<>>]
    /\ gexit = -1

InitUp ==
    /\ upc = "start"
    /\ token \in BOOLEAN
    /\ file \in Files
    /\ updateExisting \in BOOLEAN
    /\ disk \in Disks
    /\ tag = <<>> /\ repo = <<>>
    /\ release = NoRelease
    /\ net = <<>>
    /\ exitCode = -1
    /\ stdout = <<>>
    /\ stderr = ""
    /\ GenIdle

NextUp ==
    \/ Main
    \/ LookupRejects
    \/ LookupResolves
    \/ DeleteRejects
    \/ DeleteResolves
    \/ UploadRejects
    \/ UploadResolves

SpecUp == InitUp /\ [][NextUp]_vars

\* ------------------------------------------------ project spec generator
\* A session fills in at most this many entity forms: "add another" is
\* answered y only while the forms still due fit under the bound.
MaxForms == 4

\* An object as a function from keys to values; obj[key] = value.
Put(obj, key, value) ==
    [k \in (DOMAIN obj) \cup {key} |-> IF k = key THEN value ELSE obj[k]]

\* prompt's history: _remember puts the newest answer first.
Remember(h, property, value) == <<[property |-> property, value |-> value]>> \o h

\* prompt.history(search): the newest answer to the property.
History(h, search) == Head(SelectSeq(h, LAMBDA pair : pair.property = search))

FormsDone == Len(SelectSeq(history, LAMBDA pair : pair.property = "another"))

\* What is typed at a name prompt; the empty line takes the default.
NameInputs ==
    {<<>>, <<"a", " ", "b">>, <<"a", "-", "b">>, <<"a", "\t", "b">>,
     <<"a", " ", "\t", "b">>}

\* default of the name schema: `${gfynonce(...)}-${thing}`.toLowerCase(), made
\* once when the form is built.
DefaultName(thing) == <<"x", "-">> \o thing

RECURSIVE DropWhitespace(_)
DropWhitespace(s) ==
    IF s # <<>> /\ Head(s) \in Whitespace THEN DropWhitespace(Tail(s)) ELSE s

RECURSIVE ReplaceWhitespace(_)
\* value.replace(/\s+/g, '-')
ReplaceWhitespace(s) ==
    IF s = <<>> THEN <<>>
    ELSE IF Head(s) \in Whitespace THEN <<"-">> \o ReplaceWhitespace(DropWhitespace(s))
    ELSE <<Head(s)>> \o ReplaceWhitespace(Tail(s))

\* value.includes(' ')
IncludesSpace(value) == \E i \in DOMAIN value : value[i] = " "

\* before of the name schema: the value the prompt hands on.
Before(value) == IF IncludesSpace(value) THEN ReplaceWhitespace(value) ELSE value

\* The notice before prints, the empty sequence when it prints none.
Notice(value) == IF IncludesSpace(value) THEN ReplaceWhitespace(value) ELSE <<>>

\* duplicateCheck(val, obj)
DuplicateCheck(val, obj) == val \notin DOMAIN obj

\* One answer at the name prompt of a form, name(arr, thing) as the prompt
\* package's get runs a property: the line read, or the default for an empty
\* line, is what conform validates, and before gives the value that is
\* remembered and handed to the caller. A rejected line prints the message
\* and the prompt is put again.
NamePrompt(arr, thing, here, next) ==
    /\ gpc = here
    /\ \E input \in NameInputs :
         LET line == IF input = <<>> THEN DefaultName(thing) ELSE input
         IN  IF DuplicateCheck(line, arr)
             THEN /\ pending' = [name |-> Before(line)]
                  /\ history' = Remember(history, "name", Before(line))
                  /\ console' = [notice |-> Notice(line), message |-> ""]
                  /\ gpc' = next
             ELSE /\ console' = [notice |-> Notice(line),
                                 message |-> "names must be unique; please try something else."]
                  /\ UNCHANGED <<pending, history, gpc>>
    /\ UNCHANGED <<outputPath, type, jobs, triggers, credentials, written, gexit>>
    /\ UNCHANGED uvars

\* setDest and the .then that stores its answer.
SetDest ==
    /\ gpc = "dest"
    /\ \E input \in {"", "out.yaml"} :
         LET dest == IF input = "" THEN "./tmp/project.yaml" ELSE input
         IN  /\ outputPath' = dest
             /\ history' = Remember(history, "dest", dest)
    /\ gpc' = "type"
    /\ console' = [notice |-> <<>>, message |-> ""]
    /\ UNCHANGED <<type, jobs, triggers, credentials, pending, written, gexit>>
    /\ UNCHANGED uvars

\* setType and the .then that stores its answer.
SetType ==
    /\ gpc = "type"
    /\ \E input \in {"", "uri", "monolith", "yaml"} :
         LET line == IF input = "" THEN "uri" ELSE input
         IN  IF line \in {"uri", "monolith"}
             THEN /\ type' = line
                  /\ history' = Remember(history, "type", line)
                  /\ console' = [notice |-> <<>>, message |-> "Let's add some triggers."]
                  /\ gpc' = "tName"
             ELSE /\ console' = [notice |-> <<>>, message |-> "Invalid input for type"]
                  /\ UNCHANGED <<type, history, gpc>>
    /\ UNCHANGED <<outputPath, jobs, triggers, credentials, pending, written, gexit>>
    /\ UNCHANGED uvars

TriggerName == NamePrompt(triggers, <<"t">>, "tName", "tType")
CredentialName == NamePrompt(credentials, <<"c">>, "cName", "cRest")
JobName == NamePrompt(jobs, <<"j">>, "jName", "jRest")

TriggerTypes == {"cron", "message", "success", "failure"}

\* The type prompt of triggerForm.
TriggerType ==
    /\ gpc = "tType"
    /\ \E input \in TriggerTypes \cup {"", "daily"} :
         LET line == IF input = "" THEN "cron" ELSE input
         IN  IF line \in TriggerTypes
             THEN /\ pending' = [name |-> pending.name, type |-> line]
                  /\ history' = Remember(history, "type", line)
                  /\ console' = [notice |-> <<>>, message |-> ""]
                  /\ gpc' = "tRest"
             ELSE /\ console' = [notice |-> <<>>,
                        message |-> "please enter cron, message, success, or failure"]
                  /\ UNCHANGED <<pending, history, gpc>>
    /\ UNCHANGED <<outputPath, type, jobs, triggers, credentials, written, gexit>>
    /\ UNCHANGED uvars

\* The fields of triggerForm that ask() guards: the type that makes each one
\* asked, and its default ('' when the schema gives none).
AskedFor(field) ==
    CASE field = "cron" -> "cron"
      [] field = "criteria" -> "message"
      [] field = "success" -> "success"
      [] field = "failure" -> "failure"
DefaultOf(field) ==
    CASE field = "cron" -> "* * * * *"
      [] field = "criteria" -> "{a: 1}"
      [] field = "success" -> ""
      [] field = "failure" -> ""

\* The answer prompt.get gives for a guarded field: when ask() holds, the line
\* read (the default for an empty line); when it does not, the prompt
\* package skips the question and answers with the schema's default, or with
\* '' when the schema has none.
FieldAnswer(h, field, input) ==
    IF History(h, "type").value = AskedFor(field)
    THEN (IF input = "" THEN DefaultOf(field) ELSE input)
    ELSE DefaultOf(field)

\* removeFalsy(obj)
RemoveFalsy(obj) == [prop \in {q \in DOMAIN obj : obj[q] # ""} |-> obj[prop]]

\* What is typed at "add another"; only y asks for one more.
AnotherInputs == {"y", "n"}

\* The rest of prompt.get(triggerForm), and addTrigger's body.
AddTrigger ==
    /\ gpc = "tRest"
    /\ \E input \in {"", "v"}, another \in AnotherInputs :
         LET rest == [prop \in {"type", "cron", "criteria", "success", "failure"} |->
                        IF prop = "type" THEN pending.type
                        ELSE FieldAnswer(history, prop, input)]
             asked == CHOOSE f \in {"cron", "criteria", "success", "failure"} :
                        AskedFor(f) = History(history, "type").value
         IN  /\ another = "y" => FormsDone + 1 + 3 <= MaxForms
             /\ triggers' = Put(triggers, pending.name, RemoveFalsy(rest))
             /\ history' = Remember(Remember(history, asked, rest[asked]),
                                    "another", another)
             /\ IF another = "y"
                THEN gpc' = "tName" /\ console' = [notice |-> <<>>, message |-> ""]
                ELSE gpc' = "cName"
                     /\ console' = [notice |-> <<>>, message |-> "OK. Triggers written."]
    /\ pending' = <<>>
    /\ UNCHANGED <<outputPath, type, jobs, credentials, written, gexit>>
    /\ UNCHANGED uvars

\* The credential files of the session: paths and what reading them gives.
BodyInputs == {"cred.json", "gone.json"}
Readable(path) == path = "cred.json"
\* fs.readFileSync(path).toString() of a readable file
ReadFile(path) == CASE path = "cred.json" -> "{user: u, password: p}"

\* The rest of prompt.get(credentialForm), and addCredential's body.
AddCredential ==
    /\ gpc = "cRest"
    /\ \E body \in BodyInputs, another \in AnotherInputs :
         /\ another = "y" => FormsDone + 1 + 2 <= MaxForms
         /\ credentials' = Put(credentials, pending.name, body)
         /\ history' = Remember(Remember(history, "body", body), "another", another)
         /\ IF another = "y"
            THEN gpc' = "cName" /\ console' = [notice |-> <<>>, message |-> ""]
            ELSE gpc' = "jName"
                 /\ console' = [notice |-> <<>>, message |-> "OK. Credentials written."]
    /\ pending' = <<>>
    /\ UNCHANGED <<outputPath, type, jobs, triggers, written, gexit>>
    /\ UNCHANGED uvars

\* The rest of prompt.get(jobForm), and addJob's body.
AddJob ==
    /\ gpc = "jRest"
    /\ \E adaptor \in {""}, another \in AnotherInputs :
         LET rest == [expression |-> "./my-job.js",
                      adaptor |-> IF adaptor = "" THEN "@openfn/language-http" ELSE adaptor,
                      trigger |-> "t1", credential |-> "c1"]
         IN  /\ another = "y" => FormsDone + 1 + 1 <= MaxForms
             /\ jobs' = Put(jobs, pending.name, rest)
             /\ history' = Remember(Remember(Remember(Remember(Remember(history,
                              "expression", rest.expression), "adaptor", rest.adaptor),
                              "trigger", rest.trigger), "credential", rest.credential),
                              "another", another)
             /\ IF another = "y"
                THEN gpc' = "jName" /\ console' = [notice |-> <<>>, message |-> ""]
                ELSE gpc' = "assemble"
                     /\ console' = [notice |-> <<>>, message |-> "OK. Jobs written."]
    /\ pending' = <<>>
    /\ UNCHANGED <<outputPath, type, triggers, credentials, written, gexit>>
    /\ UNCHANGED uvars

NoDoc == [path |-> "", data |-> <<>>]

\* yaml.dump({ jobs, credentials, triggers })
Dump(j, c, t) == [yaml |-> [jobs |-> j, credentials |-> c, triggers |-> t]]

\* The reduce over the credentials: each path replaced by the file's text.
MonoCredentials(c) == [key \in DOMAIN c |-> ReadFile(c[key])]

\* The last .then of the chain and its .catch: in monolith mode the credential
\* files are read, then the reduce over the jobs evaluates the undeclared
\* identifier expression for the first job and throws; what is thrown is
\* logged by the .catch and the process ends normally.
Assemble ==
    /\ gpc = "assemble"
    /\ IF type = "monolith" /\ \E key \in DOMAIN credentials : ~Readable(credentials[key])
       THEN /\ console' = [notice |-> <<>>, message |-> "That didn't work. Error: ENOENT"]
            /\ UNCHANGED <<credentials, written>>
       ELSE IF type = "monolith" /\ DOMAIN jobs # {}
       THEN /\ credentials' = MonoCredentials(credentials)
            /\ console' = [notice |-> <<>>,
                  message |-> "That didn't work. Error: expression is not defined"]
            /\ UNCHANGED written
       ELSE /\ credentials' =
                  IF type = "monolith" THEN MonoCredentials(credentials) ELSE credentials
            /\ written' = [path |-> outputPath, data |-> Dump(jobs, credentials', triggers)]
            /\ console' = [notice |-> <<>>, message |-> "Done."]
    /\ gexit' = 0
    /\ gpc' = "done"
    /\ UNCHANGED <<outputPath, type, jobs, triggers, history, pending>>
    /\ UNCHANGED uvars

\* The uploader's variables while the wizard is the program run.
UpIdle ==
    /\ upc = "off"
    /\ token = FALSE /\ file = <<>> /\ updateExisting = FALSE
    /\ disk = NoDisk
    /\ tag = <<>> /\ repo = <<>>
    /\ release = NoRelease
    /\ net = <<>>
    /\ exitCode = -1
    /\ stdout = <<>>
    /\ stderr = ""

InitGen ==
    /\ gpc = "dest"
    /\ outputPath = "" /\ type = ""
    /\ jobs = <<>> /\ triggers = <<>> /\ credentials = <<>>
    /\ history = <<>> /\ pending = <<>>
    /\ console = [notice |-> <<>>, message |-> ""]
    /\ written = NoDoc
    /\ gexit = -1
    /\ UpIdle

NextGen ==
    \/ SetDest
    \/ SetType
    \/ TriggerName
    \/ TriggerType
    \/ AddTrigger
    \/ CredentialName
    \/ AddCredential
    \/ JobName
    \/ AddJob
    \/ Assemble

SpecGen == InitGen /\ [][NextGen]_vars

\* ------------------------------------------- properties: release uploader
CallsOf(op) == {i \in DOMAIN net : net[i].kind = "call" /\ net[i].op = op}
OksOf(op) == {i \in DOMAIN net : net[i].kind = "ok" /\ net[i].op = op}
ErrsOf(op) == {i \in DOMAIN net : net[i].kind = "err" /\ net[i].op = op}

Exited == upc = "exited"
LookupOk == release # NoRelease
HasBuild == LookupOk /\ ExistingOf(release) # <<>>
Existing == Head(ExistingOf(release))

\* The fetched release has a build.tgz whose size differs from the artifact's.
DifferentSize == HasBuild /\ disk.exists /\ disk.size # Existing.size
\* The fetched release has a build.tgz of the artifact's size.
EqualSize == HasBuild /\ disk.exists /\ disk.size = Existing.size

\* Every upload call comes after a delete that completed.
UploadAfterDelete ==
    \A i \in CallsOf("uploadReleaseAsset") :
        \E j \in OksOf("deleteReleaseAsset") : j < i

\* Exactly one delete call, and it names the existing asset.
OneDeleteOfExisting ==
    /\ Cardinality(CallsOf("deleteReleaseAsset")) = 1
    /\ \A i \in CallsOf("deleteReleaseAsset") : net[i].arg.asset_id = Existing.id

C1_NoFlag ==
    (DifferentSize /\ ~updateExisting) =>
        /\ Exited /\ exitCode = 2
        /\ CallsOf("deleteReleaseAsset") = {}
        /\ CallsOf("uploadReleaseAsset") = {}

\* C1 as stated: with an existing build.tgz of a different size, (a) without
\* -u the run ends with exit code 2 and issues no delete and no upload; (b)
\* with -u it issues exactly one delete call for that asset and, once the
\* delete has completed, exactly one upload call, never before the delete.
C1_Original ==
    /\ C1_NoFlag
    /\ (DifferentSize /\ updateExisting) =>
          /\ OneDeleteOfExisting
          /\ UploadAfterDelete
          /\ OksOf("deleteReleaseAsset") # {} =>
                Cardinality(CallsOf("uploadReleaseAsset")) = 1

\* C1 amended: as C1, but in (b) the one upload call follows the completed
\* delete only if the local artifact can then be read; if the read fails the
\* run issues no upload call and ends with exit code 1.
C1_Amended ==
    /\ C1_NoFlag
    /\ (DifferentSize /\ updateExisting) =>
          /\ OneDeleteOfExisting
          /\ UploadAfterDelete
          /\ (OksOf("deleteReleaseAsset") # {} /\ disk.readable) =>
                Cardinality(CallsOf("uploadReleaseAsset")) = 1
          /\ (OksOf("deleteReleaseAsset") # {} /\ ~disk.readable) =>
                /\ CallsOf("uploadReleaseAsset") = {}
                /\ Exited /\ exitCode = 1

\* A run with -u that replaced a build.tgz of a different size.
C1_Witness ==
    /\ DifferentSize /\ updateExisting
    /\ Exited /\ exitCode = 0
    /\ OksOf("deleteReleaseAsset") # {}
    /\ OksOf("uploadReleaseAsset") # {}

\* C2: with an existing build.tgz of the local artifact's size the run ends
\* with exit code 2 and issues no upload and no delete, with or without -u.
C2_SameSizeSkips ==
    EqualSize =>
        /\ Exited /\ exitCode = 2
        /\ CallsOf("uploadReleaseAsset") = {}
        /\ CallsOf("deleteReleaseAsset") = {}

\* A run with -u that found a build.tgz of the artifact's size.
C2_Witness == EqualSize /\ updateExisting /\ Exited /\ exitCode = 2

NoBuild == LookupOk /\ ExistingOf(release) = <<>>

\* The one upload call is for build.tgz on the release looked up.
OneUploadToRelease ==
    /\ Cardinality(CallsOf("uploadReleaseAsset")) = 1
    /\ \A i \in CallsOf("uploadReleaseAsset") :
          /\ net[i].arg.name = "build.tgz"
          /\ net[i].arg.release_id = release.data.id

\* When the upload succeeded the run ended with 0, the URL reported last.
UploadedReportsUrl ==
    \A i \in OksOf("uploadReleaseAsset") :
        /\ Exited /\ exitCode = 0
        /\ stdout # <<>>
        /\ stdout[Len(stdout)].arg = net[i].arg.browser_download_url

\* C3 as stated: when the lookup succeeds and the release has no build.tgz,
\* the run issues exactly one upload call (build.tgz, to the release's id)
\* and no delete call, and a successful upload ends the run with exit code 0
\* after the download URL is reported.
C3_Original ==
    NoBuild =>
        /\ OneUploadToRelease
        /\ CallsOf("deleteReleaseAsset") = {}
        /\ UploadedReportsUrl

\* C3 amended: as C3 when the local artifact can be read; when it cannot, the
\* run issues no upload call and no delete call and ends with exit code 1.
C3_Amended ==
    NoBuild =>
        /\ CallsOf("deleteReleaseAsset") = {}
        /\ UploadedReportsUrl
        /\ (disk.exists /\ disk.readable) => OneUploadToRelease
        /\ ~(disk.exists /\ disk.readable) =>
              /\ CallsOf("uploadReleaseAsset") = {}
              /\ Exited /\ exitCode = 1

\* A run that uploaded to a release without build.tgz and reported the URL.
C3_Witness ==
    /\ NoBuild /\ Exited /\ exitCode = 0
    /\ OksOf("uploadReleaseAsset") # {}
    /\ release.data.assets # <<>>

\* The file name of a path: what follows its last slash.
Basename(f) ==
    LET slashes == {i \in DOMAIN f : f[i] = "/"}
    IN  IF slashes = {} THEN f
        ELSE SubSeq(f, (CHOOSE i \in slashes : \A j \in slashes : j <= i) + 1, Len(f))

\* The splits of a file name as <repo>-v<major>.<minor>.<patch>.tgz : k is the
\* length of <repo>.
ShapeSplits(b) ==
    {k \in 1..Len(b) :
        /\ Len(b) >= k + 2 + 5 + 4
        /\ SubSeq(b, k + 1, k + 2) = <<"-", "v">>
        /\ SubSeq(b, Len(b) - 3, Len(b)) = <<".", "t", "g", "z">>
        /\ LET v == SubSeq(b, k + 3, Len(b) - 4)
           IN  /\ AllIn(v, Digit \cup {"."})
               /\ Cardinality({i \in DOMAIN v : v[i] = "."}) = 2
               /\ v[1] # "." /\ v[Len(v)] # "."
               /\ \A i \in 1..(Len(v) - 1) : ~(v[i] = "." /\ v[i + 1] = ".")}

HasShape(f) == ShapeSplits(Basename(f)) # {}
ShapeRepo(f) ==
    LET b == Basename(f) IN SubSeq(b, 1, CHOOSE k \in ShapeSplits(b) : TRUE)
ShapeTag(f) ==
    LET b == Basename(f)
        k == CHOOSE k \in ShapeSplits(b) : TRUE
    IN  SubSeq(b, k + 2, Len(b) - 4)

\* C4: in a run given a token and -i, a file name of the shape
\* <repo>-v<major>.<minor>.<patch>.tgz yields the tag v<major>.<minor>.<patch>
\* and the repository <repo>; any other file name ends the run with exit code
\* 1 and without any network request.
C4_Derivation ==
    (upc # "start" /\ token /\ file # <<>>) =>
        IF HasShape(file)
        THEN tag = ShapeTag(file) /\ repo = ShapeRepo(file)
        ELSE Exited /\ exitCode = 1 /\ net = <<>>

\* The upload is blocked by an existing build.tgz.
Blocked == HasBuild /\ disk.exists /\ (EqualSize \/ ~updateExisting)

\* C5: every run ends with 0, 1 or 2: 0 only after an upload that succeeded,
\* 2 only when an existing build.tgz blocked the upload, 1 in every other
\* case, among them a missing GH_TOKEN (before any other work), a missing
\* -i, a failed lookup, delete, upload or read of the artifact.
C5_ExitCodes ==
    /\ exitCode \in {-1, 0, 1, 2}
    /\ Exited <=> exitCode # -1
    /\ Exited =>
          /\ exitCode = 0 <=> OksOf("uploadReleaseAsset") # {}
          /\ exitCode = 2 <=> Blocked
          /\ (OksOf("uploadReleaseAsset") = {} /\ ~Blocked) => exitCode = 1
          /\ ~token => (exitCode = 1 /\ net = <<>> /\ tag = <<>> /\ repo = <<>>)
          /\ (file = <<>> \/ ~LookupOk
                \/ ErrsOf("deleteReleaseAsset") # {}
                \/ ErrsOf("uploadReleaseAsset") # {}
                \/ (LookupOk /\ ~Blocked /\ ~(disk.exists /\ disk.readable)))
             => exitCode = 1

\* A run that ended with 1 because the delete failed.
C5_Witness ==
    /\ Exited /\ exitCode = 1
    /\ ErrsOf("deleteReleaseAsset") # {}

\* --------------------------------------- properties: project spec generator
HasWhitespace(n) == \E i \in DOMAIN n : n[i] \in Whitespace

\* C6: within a kind, a name that has been accepted for a new entity is the
\* name of no stored entity of that kind, so no accepted addition overwrites
\* an earlier entity and the stored entities are as many as the accepted
\* additions.
C6_UniqueNames ==
    /\ gpc \in {"tType", "tRest"} => pending.name \notin DOMAIN triggers
    /\ gpc = "cRest" => pending.name \notin DOMAIN credentials
    /\ gpc = "jRest" => pending.name \notin DOMAIN jobs

\* C7: no name under which an entity is accepted or stored contains
\* whitespace of any kind, the wizard having replaced each whitespace run of
\* the proposed name by one hyphen.
C7_NoWhitespace ==
    /\ \A n \in (DOMAIN jobs) \cup (DOMAIN triggers) \cup (DOMAIN credentials) :
          ~HasWhitespace(n)
    /\ gpc \in {"tType", "tRest", "cRest", "jRest"} => ~HasWhitespace(pending.name)

\* The field a trigger type selects.
FieldOfType(t) ==
    CASE t = "cron" -> "cron"
      [] t = "message" -> "criteria"
      [] t = "success" -> "success"
      [] t = "failure" -> "failure"

\* C8: every stored trigger record has one of the four types and holds, with
\* type, exactly the field its type selects and none of the other three.
C8_TriggerFields ==
    \A n \in DOMAIN triggers :
        /\ "type" \in DOMAIN triggers[n]
        /\ triggers[n].type \in TriggerTypes
        /\ DOMAIN triggers[n] = {"type", FieldOfType(triggers[n].type)}

\* C9: in monolith mode, with every credential file readable, the step that
\* follows the three collection loops writes one document to the chosen
\* path, in which each credential's body is the text of the file at the path
\* entered for it.
C9_MonolithWrites ==
    [][(gpc = "assemble" /\ type = "monolith"
          /\ \A key \in DOMAIN credentials : Readable(credentials[key]))
       => /\ written'.path = outputPath
          /\ written'.data =
               Dump(jobs, [key \in DOMAIN credentials |-> ReadFile(credentials[key])],
                    triggers)]_vars

\* C10: in monolith mode, a run in which a credential file could not be read
\* has ended with a non-zero exit code and has written nothing.
C10_ReadFailureAborts ==
    (gpc = "done" /\ type = "monolith"
        /\ \E key \in DOMAIN credentials :
              credentials[key] \in BodyInputs /\ ~Readable(credentials[key]))
    => (gexit # 0 /\ written = NoDoc)
====
